---- MODULE Spec2Model ----
(***************************************************************************)
(* Model of copy-env-keys-to-env-example (src/index.js): the tokenizer,   *)
(* the key indexer and merger, the template builder, the unknown-key      *)
(* annotator, the template patcher, and main.                             *)
(*                                                                         *)
(* File contents and lines are strings; a character is a string of length *)
(* one.  A JavaScript null result of parseAssignment is a record with     *)
(* ok = FALSE; a source file that is absent reads as "" (main passes      *)
(* `envContent || ""`, and every later test of a source is a truthiness   *)
(* test, so null and "" are the same to the code).                        *)
(***************************************************************************)
EXTENDS Integers, Sequences, FiniteSets, TLC

VARIABLES envContent, envLocalContent, envExists, envLocalExists, outPath, written, others,
          exampleExists, exampleContent,
          op, arg, tokens, index, marked, text, clock, runs

vars == <<envContent, envLocalContent, envExists, envLocalExists, outPath, written, others,
          exampleExists, exampleContent,
          op, arg, tokens, index, marked, text, clock, runs>>

(***************************************************************************)
(* Strings                                                                 *)
(***************************************************************************)

\* line[i] of JavaScript, with i counted from 1
Ch(s, i) == SubSeq(s, i, i)

Max(S) == CHOOSE x \in S : \A y \in S : y <= x
Min(S) == CHOOSE x \in S : \A y \in S : x <= y

\* the vertical tab U+000B, written as the character itself
VT == ""

\* the characters of U+0000 to U+007F that the regular-expression class \s (and
\* String.prototype.trim) matches.  The contents of this module are made of such
\* characters only.  The class has 19 more members, U+00A0, U+1680, U+2000 to
\* U+200A, U+2028, U+2029, U+202F, U+205F, U+3000 and U+FEFF, which a string of
\* this module cannot hold; the code tests a character only by \s, by trim and by
\* equality with "\n", "\r", "'", '"', "=" and "#", so it treats each of them as
\* it treats VT
Whitespace == {" ", "\t", "\n", "\r", "\f", VT}

\* position of the first "\n" of s, 0 when there is none
FirstLF(s) ==
  IF \E i \in 1..Len(s) : Ch(s, i) = "\n"
  THEN CHOOSE i \in 1..Len(s) :
         Ch(s, i) = "\n" /\ \A j \in 1..(i - 1) : Ch(s, j) # "\n"
  ELSE 0

\* the mutant splits on a bare "\n" and leaves the "\r" of a "\r\n" in the line
RECURSIVE SplitLines_keepCR(_)
SplitLines_keepCR(s) ==
  LET i == FirstLF(s)
  IN  IF i = 0 THEN <<s>>
      ELSE <<SubSeq(s, 1, i - 1)>> \o SplitLines_keepCR(SubSeq(s, i + 1, Len(s)))

\* content.split(/\r?\n/)
RECURSIVE SplitLines(_)
SplitLines(s) ==
  LET i == FirstLF(s)
      e == IF i > 1 /\ Ch(s, i - 1) = "\r" THEN i - 2 ELSE i - 1
  IN  IF i = 0 THEN <<s>>
      ELSE <<SubSeq(s, 1, e)>> \o SplitLines(SubSeq(s, i + 1, Len(s)))

\* lines.join("\n")
RECURSIVE JoinLines(_)
JoinLines(lines) ==
  IF Len(lines) = 0 THEN ""
  ELSE IF Len(lines) = 1 THEN lines[1]
  ELSE lines[1] \o "\n" \o JoinLines(Tail(lines))

\* number of whitespace characters s starts with
LeadingSpaces(s) ==
  IF \A i \in 1..Len(s) : Ch(s, i) \in Whitespace THEN Len(s)
  ELSE (CHOOSE i \in 1..Len(s) :
          Ch(s, i) \notin Whitespace /\ \A j \in 1..(i - 1) : Ch(s, j) \in Whitespace) - 1

\* number of whitespace characters s ends with
TrailingSpaces(s) ==
  IF \A i \in 1..Len(s) : Ch(s, i) \in Whitespace THEN Len(s)
  ELSE Len(s) - (CHOOSE i \in 1..Len(s) :
          Ch(s, i) \notin Whitespace /\ \A j \in (i + 1)..Len(s) : Ch(s, j) \in Whitespace)

\* String.prototype.trim
Trim(s) ==
  IF LeadingSpaces(s) = Len(s) THEN ""
  ELSE SubSeq(s, LeadingSpaces(s) + 1, Len(s) - TrailingSpaces(s))

(***************************************************************************)
(* Line classifier                                                         *)
(***************************************************************************)

isBlankLine(line) == \A i \in 1..Len(line) : Ch(line, i) \in Whitespace

isCommentLine(line) ==
  LeadingSpaces(line) < Len(line) /\ Ch(line, LeadingSpaces(line) + 1) = "#"

\* line.replace(/^\s*export\s+/, "")
stripExportPrefix(line) ==
  LET n == LeadingSpaces(line)
  IN  IF /\ Len(line) >= n + 7
         /\ SubSeq(line, n + 1, n + 6) = "export"
         /\ Ch(line, n + 7) \in Whitespace
      THEN LET rest == SubSeq(line, n + 7, Len(line))
           IN  SubSeq(rest, LeadingSpaces(rest) + 1, Len(rest))
      ELSE line

\* the loop of findUnquotedEqualsIndex from position i (counted from 0).  Only the
\* characters ', " and = reach a branch that does anything, so the loop is taken
\* from one of them to the next
RECURSIVE ScanEquals(_, _, _, _)
ScanEquals(line, i, inSingle, inDouble) ==
  LET special == {j \in (i + 1)..Len(line) : Ch(line, j) \in {"'", "\"", "="}}
  IN  IF special = {} THEN -1
      ELSE LET ch == Ch(line, Min(special))
           IN  IF ch = "'" /\ ~inDouble
               THEN ScanEquals(line, Min(special), ~inSingle, inDouble)
               ELSE IF ch = "\"" /\ ~inSingle
               THEN ScanEquals(line, Min(special), inSingle, ~inDouble)
               ELSE IF ch = "=" /\ ~inSingle /\ ~inDouble THEN Min(special) - 1
               ELSE ScanEquals(line, Min(special), inSingle, inDouble)

\* index (from 0) of the first "=" outside quotes, -1 when there is none
findUnquotedEqualsIndex(line) == ScanEquals(line, 0, FALSE, FALSE)

\* the mutant takes the key from the whole line instead of the part before the "="
parseAssignment_wholeLineKey(line) ==
  LET withoutExport == stripExportPrefix(line)
      idx == findUnquotedEqualsIndex(withoutExport)
  IN  IF idx = -1 THEN [ok |-> FALSE, key |-> "", value |-> ""]
      ELSE [ok    |-> TRUE,
            key   |-> Trim(withoutExport),
            value |-> SubSeq(withoutExport, idx + 2, Len(withoutExport))]

\* ok = FALSE is the null result
parseAssignment(line) ==
  LET withoutExport == stripExportPrefix(line)
      idx == findUnquotedEqualsIndex(withoutExport)
  IN  IF idx = -1 THEN [ok |-> FALSE, key |-> "", value |-> ""]
      ELSE [ok    |-> TRUE,
            key   |-> Trim(SubSeq(withoutExport, 1, idx)),
            value |-> SubSeq(withoutExport, idx + 2, Len(withoutExport))]

\* `assignment && assignment.key`
IsAssignment(line) == parseAssignment(line).ok /\ parseAssignment(line).key # ""

(***************************************************************************)
(* Tokenizer                                                               *)
(***************************************************************************)

\* the token of one line
Token(line) ==
  IF isBlankLine(line) THEN [type |-> "blank", raw |-> line, key |-> "", value |-> ""]
  ELSE IF isCommentLine(line) THEN [type |-> "comment", raw |-> line, key |-> "", value |-> ""]
  ELSE IF IsAssignment(line)
       THEN [type |-> "assignment", raw |-> line,
             key |-> parseAssignment(line).key, value |-> parseAssignment(line).value]
  ELSE [type |-> "comment", raw |-> line, key |-> "", value |-> ""]

tokenizeEnvFile(content) ==
  LET lines == SplitLines(content)
  IN  [i \in 1..Len(lines) |-> Token(lines[i])]

\* `content ? tokenizeEnvFile(content) : []`
SourceTokens(content) == IF content = "" THEN <<>> ELSE tokenizeEnvFile(content)

\* the raw lines of a token sequence
Raws(toks) == [i \in 1..Len(toks) |-> toks[i].raw]

\* the positions and the keys of the assignment tokens
AssignPositions(toks) == {i \in 1..Len(toks) : toks[i].type = "assignment"}
TokenKeys(toks) == {toks[i].key : i \in AssignPositions(toks)}

(***************************************************************************)
(* Key indexer and multi-source merger                                     *)
(***************************************************************************)

\* the set `seen` after the entries were pushed
KeysOf(entries) == {entries[i].key : i \in 1..Len(entries)}

\* the mutant clears `pending` only when a new key is indexed
RECURSIVE IndexLoop_keepPending(_, _, _, _)
IndexLoop_keepPending(toks, i, entries, pending) ==
  IF i > Len(toks) THEN [entries |-> entries, trailing |-> pending]
  ELSE IF toks[i].type \in {"comment", "blank"}
       THEN IndexLoop_keepPending(toks, i + 1, entries, Append(pending, toks[i].raw))
  ELSE IF toks[i].key \notin KeysOf(entries)
       THEN IndexLoop_keepPending(toks, i + 1,
              Append(entries, [key |-> toks[i].key, commentsBefore |-> pending]), <<>>)
  ELSE IndexLoop_keepPending(toks, i + 1, entries, pending)

\* the loop of buildKeyIndexWithLeadingComments from token i on
RECURSIVE IndexLoop(_, _, _, _)
IndexLoop(toks, i, entries, pending) ==
  IF i > Len(toks) THEN [entries |-> entries, trailing |-> pending]
  ELSE IF toks[i].type \in {"comment", "blank"}
       THEN IndexLoop(toks, i + 1, entries, Append(pending, toks[i].raw))
  ELSE IF toks[i].key \notin KeysOf(entries)
       THEN IndexLoop(toks, i + 1,
              Append(entries, [key |-> toks[i].key, commentsBefore |-> pending]), <<>>)
  ELSE IndexLoop(toks, i + 1, entries, <<>>)

buildKeyIndexWithLeadingComments(toks) == IndexLoop(toks, 1, <<>>, <<>>)

\* the mutant pushes every secondary entry, seen or not
MergeLoop_noSeen(merged, secondaryEntries, i) ==
  merged \o secondaryEntries

\* the loop of uniqueKeyOrderFromTokens over the secondary entries, from entry i on
RECURSIVE MergeLoop(_, _, _)
MergeLoop(merged, secondaryEntries, i) ==
  IF i > Len(secondaryEntries) THEN merged
  ELSE IF secondaryEntries[i].key \notin KeysOf(merged)
       THEN MergeLoop(Append(merged, secondaryEntries[i]), secondaryEntries, i + 1)
  ELSE MergeLoop(merged, secondaryEntries, i + 1)

uniqueKeyOrderFromTokens(primaryTokens, secondaryTokens) ==
  LET primary   == buildKeyIndexWithLeadingComments(primaryTokens)
      secondary == buildKeyIndexWithLeadingComments(secondaryTokens)
  IN  [orderedEntries    |-> MergeLoop(primary.entries, secondary.entries, 1),
       trailingPrimary   |-> primary.trailing,
       trailingSecondary |-> secondary.trailing]

(***************************************************************************)
(* Template builder                                                        *)
(***************************************************************************)

\* `${entry.key}=`
KeyLine(key) == key \o "="

\* number of comment/blank tokens before the first assignment token
LeadingCount(toks) ==
  IF AssignPositions(toks) = {} THEN Len(toks) ELSE Min(AssignPositions(toks)) - 1

\* the mutant emits the first entry's comments even when they are the header
EntryLines_noSkip(entry, first, leading) ==
  entry.commentsBefore \o <<KeyLine(entry.key)>>

\* what one round of the loop over orderedEntries pushes; `first` is
\* !firstEntryProcessed
EntryLines(entry, first, leading) ==
  (IF Len(entry.commentsBefore) > 0
   THEN IF first /\ Len(leading) > 0
        THEN IF leading = entry.commentsBefore THEN <<>> ELSE entry.commentsBefore
        ELSE entry.commentsBefore
   ELSE <<>>) \o <<KeyLine(entry.key)>>

RECURSIVE BuildLoop(_, _, _)
BuildLoop(entries, i, leading) ==
  IF i > Len(entries) THEN <<>>
  ELSE EntryLines(entries[i], i = 1, leading) \o BuildLoop(entries, i + 1, leading)

\* the lines buildExampleFromScratch joins
BuildLines(env, envLocal) ==
  LET envTokens == SourceTokens(env)
      merged    == uniqueKeyOrderFromTokens(envTokens, SourceTokens(envLocal))
      header    == Raws(SubSeq(envTokens, 1, LeadingCount(envTokens)))
      trailing  == IF Len(merged.trailingPrimary) > 0 THEN merged.trailingPrimary
                   ELSE merged.trailingSecondary
  IN  header \o BuildLoop(merged.orderedEntries, 1, header) \o trailing

buildExampleFromScratch(env, envLocal) == JoinLines(BuildLines(env, envLocal)) \o "\n"

(***************************************************************************)
(* Unknown-key annotator                                                   *)
(***************************************************************************)

WARNING_MISSING_IN_SOURCES == "# NOTE: Key not found in .env or .env.local"

\* `j >= 0 && output[j] === WARNING_MISSING_IN_SOURCES` after the while loop
PrevIsWarning(output) ==
  LET nonBlank == {j \in 1..Len(output) : ~isBlankLine(output[j])}
  IN  nonBlank # {} /\ output[Max(nonBlank)] = WARNING_MISSING_IN_SOURCES

\* the loop of markUnknownKeysInExample from line i on
RECURSIVE MarkLoop(_, _, _, _)
MarkLoop(lines, i, output, presentKeys) ==
  IF i > Len(lines) THEN output
  ELSE LET line == lines[i]
           warn == /\ IsAssignment(line)
                   /\ parseAssignment(line).key \notin presentKeys
                   /\ ~PrevIsWarning(output)
       IN  MarkLoop(lines, i + 1,
                    (IF warn THEN Append(output, WARNING_MISSING_IN_SOURCES) ELSE output)
                      \o <<line>>,
                    presentKeys)

\* s.replace(/\n*$/, "\n")
RECURSIVE SingleTrailingNewline(_)
SingleTrailingNewline(s) ==
  IF Len(s) > 0 /\ Ch(s, Len(s)) = "\n" THEN SingleTrailingNewline(SubSeq(s, 1, Len(s) - 1))
  ELSE s \o "\n"

markUnknownKeysInExample(example, env, envLocal) ==
  LET presentKeys == TokenKeys(SourceTokens(env)) \cup TokenKeys(SourceTokens(envLocal))
  IN  SingleTrailingNewline(
        JoinLines(MarkLoop(SplitLines(example), 1, <<>>, presentKeys)))

(***************************************************************************)
(* Template patcher                                                        *)
(***************************************************************************)

\* the text nowStamp returns at second t of the clock
nowStamp(t) == "2024-01-01 00:00:0" \o Ch("0123456789", t + 1)

SectionHeader(t) == "# --- Added by copy-env-keys-to-env-example on " \o nowStamp(t) \o " ---"

\* s.replace(/\s*$/, "")
TrimEnd(s) == SubSeq(s, 1, Len(s) - TrailingSpaces(s))

\* orderedEntries.filter(e => !exampleKeys.has(e.key)), from entry i on
RECURSIVE FilterMissing(_, _, _)
FilterMissing(entries, i, exampleKeys) ==
  IF i > Len(entries) THEN <<>>
  ELSE (IF entries[i].key \notin exampleKeys THEN <<entries[i]>> ELSE <<>>)
         \o FilterMissing(entries, i + 1, exampleKeys)

MissingEntries(example, env, envLocal) ==
  FilterMissing(
    uniqueKeyOrderFromTokens(SourceTokens(env), SourceTokens(envLocal)).orderedEntries,
    1, TokenKeys(tokenizeEnvFile(example)))

\* what the loop over missingEntries pushes, from entry i on
RECURSIVE AppendLoop(_, _)
AppendLoop(missing, i) ==
  IF i > Len(missing) THEN <<>>
  ELSE missing[i].commentsBefore \o <<KeyLine(missing[i].key)>> \o AppendLoop(missing, i + 1)

\* t is the second at which nowStamp reads the clock
appendMissingKeysToExample(example, env, envLocal, t) ==
  LET missingEntries == MissingEntries(example, env, envLocal)
  IN  IF Len(missingEntries) = 0 THEN example
      ELSE JoinLines(SplitLines(TrimEnd(example)) \o <<SectionHeader(t)>>
                       \o AppendLoop(missingEntries, 1)) \o "\n"

(***************************************************************************)
(* Inputs                                                                  *)
(***************************************************************************)

\* longest content given to the tokenizer alone
MaxTokLen == 4

TokAlphabet == {"A", "=", "#", " ", "'", "\r", "\n", VT}

RECURSIVE StringsUpTo(_, _)
StringsUpTo(alphabet, n) ==
  IF n = 0 THEN {""}
  ELSE LET S == StringsUpTo(alphabet, n - 1)
       IN  S \cup {s \o c : s \in S, c \in alphabet}

\* the contents of at most n lines of pool, joined by "\n"
Contents(pool, n) ==
  {JoinLines(ls) : ls \in UNION {[1..k -> pool] : k \in 0..n}}

\* most lines of a primary and of a secondary source given to the indexer
MaxIndexLines == 3
MaxIndexLocalLines == 2

IndexPrimaryLines == {"A=1", "B=2", "# c", ""}
IndexSecondaryLines == {"A=9", "C=3", "# d"}

\* the merge scenario of the specification, and sources with a duplicate key between
\* a comment and a new key
IndexScenarios ==
  {<<"a=1\nb=2\nc=3", "b=1\nd=2\na=3\ne=4">>,
   <<"A=1\n# c\nA=1\nB=2", "">>,
   <<"A=1\n# c\nA=2\n\n# e\nB=2\n", "# d\nB=9\n# f\nB=8\nC=3">>,
   <<"# c\nA=1\n# e\nexport A=2\n", "C=3\n# d\nC=4\n# f">>}

\* most lines of a primary source given to the builder and the patcher
MaxBuildLines == 3

BuildPrimaryLines == {"A=1", "B=2", "# h", "", "'K=s"}
BuildSecondaryContents == {"", "# d\nC=3\n", "A=9\nC=3\n"}
BuildTemplates == {"", "A=\n", "A= \r\nX=2 \n\n"}

\* the scenarios of the specification (fresh build, merge with secondary, patch
\* existing), a primary source that holds only a header comment, and sources with
\* a key that starts with '#' or with a second `export`
BuildScenarios ==
  {<<"A=1\n# db config\nB=2\n", "", "A=\n">>,
   <<"A=1\n", "A=2\nC=3\n", "A=\n">>,
   <<"A=1\nB=2\n", "", "A=\n">>,
   <<"# h\n", "C=3\n", "A= \n">>,
   <<"B=2\nexport #A=1\n", "", "B=\n">>,
   <<"A=1\nexport export A=1\n", "", "A=\n">>}

\* most lines of a template given to the annotator
MaxTemplateLines == 3

TemplateLines == {"A=", "OLD=", "# a=b", "", WARNING_MISSING_IN_SOURCES}
PatchSources == {<<"A=1", "">>, <<"A=1\nB=2\n", "">>, <<"A=1\n# k=v\nB=2\n", "">>,
                 <<"", "A=1">>, <<"A=1", "C=3\n">>}

\* the annotation and unknown-key scenarios of the specification, and a template
\* that lacks a key whose source line follows a commented-out assignment
PatchScenarios ==
  {<<"FOO=x", "", "FOO=1\nBAR=2">>,
   <<"A=1\n", "", "A=\nOLD=\n">>,
   <<"A=1\n# k=v\nB=2\n", "", "A=\n">>}

\* the clock runs from second 0 to this one
MaxClock == 1

\* most runs of the annotate-then-append pipeline
MaxRuns == 3

\* most lines of a primary source of a run of the tool
MaxMainLines == 2

MainPrimaryLines == {"A=1", "B=2", "# h"}
MainSecondaryContents == {"", "C=3", "A=9\nC=3\n"}

\* most arguments of a command line
MaxArgs == 3

\* most runs of the tool
MaxMainRuns == 2

\* the working directory, the directories that exist, and the three files main
\* names; no other directory exists
CWD == "/w"
Directories == {<<>>, <<"w">>}
EnvPath == "/w/.env"
EnvLocalPath == "/w/.env.local"
ExamplePath == "/w/.env.example"

\* no file but the three
NoOthers == [f \in {} |-> ""]

ArgPool == {"--dry-run", "-o", "--output", "--help", "./.env", "sub/../.env.local",
            "out.txt", "config/example.env", ".env.local/", ".", "/w/.env.example"}
Argvs == UNION {[1..k -> ArgPool] : k \in 0..MaxArgs}

\* the fresh-build and merge scenarios of the specification, and two sources with
\* one key each
MainScenarios ==
  {<<"A=1\n# db config\nB=2\n", "">>, <<"A=1\n", "A=2\nC=3\n">>,
   <<"A=1\n", "B=2\n">>}

NoIndex == [orderedEntries |-> <<>>, trailingPrimary |-> <<>>, trailingSecondary |-> <<>>]

\* the state before any operation, for given files; the content of a file that
\* does not exist is ""
StartWith(envThere, env, envLocalThere, envLocal, exists, example) ==
  /\ envExists = envThere
  /\ envLocalExists = envLocalThere
  /\ envContent = env
  /\ envLocalContent = envLocal
  /\ outPath = ExamplePath
  /\ written = {}
  /\ others = NoOthers
  /\ exampleExists = exists
  /\ exampleContent = example
  /\ op = "none"
  /\ arg = ""
  /\ tokens = <<>>
  /\ index = NoIndex
  /\ marked = ""
  /\ text = ""
  /\ clock = 0
  /\ runs = 0

\* the same, with both source files present
Start(env, envLocal, exists, example) ==
  StartWith(TRUE, env, TRUE, envLocal, exists, example)

(***************************************************************************)
(* Operations                                                              *)
(***************************************************************************)

\* tokenizeEnvFile applied to the primary source
Tokenize ==
  /\ op = "none"
  /\ op' = "tokenize"
  /\ arg' = envContent
  /\ tokens' = tokenizeEnvFile(envContent)
  /\ UNCHANGED <<envContent, envLocalContent, envExists, envLocalExists, outPath, written, others,
                 exampleExists, exampleContent,
                 index, marked, text, clock, runs>>

InitTokenize ==
  \E c \in StringsUpTo(TokAlphabet, MaxTokLen) : Start(c, "", FALSE, "")

SpecTokenize == InitTokenize /\ [][Tokenize]_vars

\* the merged key list of the two sources, as lines 178-180 and 224-226 compute it
BuildIndex ==
  /\ op = "none"
  /\ op' = "index"
  /\ index' = uniqueKeyOrderFromTokens(SourceTokens(envContent),
                                       SourceTokens(envLocalContent))
  /\ UNCHANGED <<envContent, envLocalContent, envExists, envLocalExists, outPath, written, others,
                 exampleExists, exampleContent,
                 arg, tokens, marked, text, clock, runs>>

InitIndex ==
  \/ \E e \in Contents(IndexPrimaryLines, MaxIndexLines),
        l \in Contents(IndexSecondaryLines, MaxIndexLocalLines) : Start(e, l, FALSE, "")
  \/ \E sc \in IndexScenarios : Start(sc[1], sc[2], FALSE, "")

SpecIndex == InitIndex /\ [][BuildIndex]_vars

\* buildExampleFromScratch applied to the two sources
Build ==
  /\ op = "none"
  /\ op' = "build"
  /\ text' = buildExampleFromScratch(envContent, envLocalContent)
  /\ UNCHANGED <<envContent, envLocalContent, envExists, envLocalExists, outPath, written, others,
                 exampleExists, exampleContent,
                 arg, tokens, index, marked, clock, runs>>

\* appendMissingKeysToExample applied to the template and the two sources
AppendMissing ==
  /\ op = "none"
  /\ \E t \in clock..MaxClock :
       /\ clock' = t
       /\ text' = appendMissingKeysToExample(exampleContent, envContent, envLocalContent, t)
  /\ op' = "append"
  /\ arg' = exampleContent
  /\ UNCHANGED <<envContent, envLocalContent, envExists, envLocalExists, outPath, written, others,
                 exampleExists, exampleContent,
                 tokens, index, marked, runs>>

\* main calls neither function when both sources are absent or empty
InitBuild ==
  \/ \E sc \in BuildScenarios : Start(sc[1], sc[2], TRUE, sc[3])
  \/ \E e \in Contents(BuildPrimaryLines, MaxBuildLines),
        l \in BuildSecondaryContents, x \in BuildTemplates :
       ~(e = "" /\ l = "") /\ Start(e, l, TRUE, x)

SpecBuild == InitBuild /\ [][Build \/ AppendMissing]_vars

\* markUnknownKeysInExample applied to the template and the two sources
Mark ==
  /\ op = "none"
  /\ op' = "mark"
  /\ arg' = exampleContent
  /\ text' = markUnknownKeysInExample(exampleContent, envContent, envLocalContent)
  /\ UNCHANGED <<envContent, envLocalContent, envExists, envLocalExists, outPath, written, others,
                 exampleExists, exampleContent,
                 tokens, index, marked, clock, runs>>

\* the names of a path between its "/" characters
RECURSIVE Segments(_)
Segments(path) ==
  IF \E i \in 1..Len(path) : Ch(path, i) = "/"
  THEN LET i == CHOOSE k \in 1..Len(path) :
                  Ch(path, k) = "/" /\ \A m \in 1..(k - 1) : Ch(path, m) # "/"
       IN  <<SubSeq(path, 1, i - 1)>> \o Segments(SubSeq(path, i + 1, Len(path)))
  ELSE <<path>>

RECURSIVE JoinSegments(_)
JoinSegments(segs) ==
  IF Len(segs) = 0 THEN ""
  ELSE IF Len(segs) = 1 THEN segs[1]
  ELSE segs[1] \o "/" \o JoinSegments(Tail(segs))

\* path.normalize of an absolute path, on its segments from i on: "" and "." are
\* dropped, ".." drops the name before it (none at the root)
RECURSIVE NormalizeLoop(_, _, _)
NormalizeLoop(segs, i, kept) ==
  IF i > Len(segs) THEN kept
  ELSE IF segs[i] \in {"", "."} THEN NormalizeLoop(segs, i + 1, kept)
  ELSE IF segs[i] = ".."
       THEN NormalizeLoop(segs, i + 1, SubSeq(kept, 1, Len(kept) - 1))
  ELSE NormalizeLoop(segs, i + 1, Append(kept, segs[i]))

\* path.join(cwd, next): the normalized path, which keeps a trailing "/"
PathJoin(cwd, next) ==
  LET joined == cwd \o "/" \o next
      kept == NormalizeLoop(Segments(joined), 1, <<>>)
  IN  "/" \o JoinSegments(kept)
        \o (IF Len(kept) > 0 /\ Ch(joined, Len(joined)) = "/" THEN "/" ELSE "")

isAbsolute(path) == Len(path) > 0 /\ Ch(path, 1) = "/"

\* the loop of parseCliArgs from argument i on; exit is the code process.exit is
\* called with, -1 when the arguments are accepted
RECURSIVE ParseLoop(_, _, _, _)
ParseLoop(argv, i, dryRun, outputPath) ==
  IF i > Len(argv) THEN [exit |-> -1, dryRun |-> dryRun, outputPath |-> outputPath]
  ELSE IF argv[i] = "--dry-run" THEN ParseLoop(argv, i + 1, TRUE, outputPath)
  ELSE IF argv[i] \in {"--output", "-o"}
       THEN IF i + 1 > Len(argv) \/ argv[i + 1] = "" \/ Ch(argv[i + 1], 1) = "-"
            THEN [exit |-> 1, dryRun |-> dryRun, outputPath |-> outputPath]
            ELSE ParseLoop(argv, i + 2, dryRun,
                           IF isAbsolute(argv[i + 1]) THEN argv[i + 1]
                           ELSE PathJoin(CWD, argv[i + 1]))
  ELSE IF argv[i] \in {"--help", "-h"}
       THEN [exit |-> 0, dryRun |-> dryRun, outputPath |-> outputPath]
  ELSE [exit |-> 1, dryRun |-> dryRun, outputPath |-> outputPath]

parseCliArgs(argv) == ParseLoop(argv, 1, FALSE, PathJoin(CWD, ".env.example"))

\* whether a file exists, and its content ("" when it does not), by its path
FileExists(file) ==
  IF file = EnvPath THEN envExists
  ELSE IF file = EnvLocalPath THEN envLocalExists
  ELSE IF file = ExamplePath THEN exampleExists
  ELSE file \in DOMAIN others

FileContent(file) ==
  IF file = EnvPath THEN envContent
  ELSE IF file = EnvLocalPath THEN envLocalContent
  ELSE IF file = ExamplePath THEN exampleContent
  ELSE IF file \in DOMAIN others THEN others[file]
  ELSE ""

\* what the file system finds at a path, walking its segments from i on with dir
\* the directory reached so far: a directory ("isdir"), a file or a free name in an
\* existing directory ("file", with its path), or nothing because a name on the way
\* is a file ("enotdir") or does not exist ("enoent")
RECURSIVE Walk(_, _, _)
Walk(segs, i, dir) ==
  IF i > Len(segs) THEN [status |-> "isdir", file |-> ""]
  ELSE IF segs[i] \in {"", "."} THEN Walk(segs, i + 1, dir)
  ELSE IF segs[i] = ".." THEN Walk(segs, i + 1, SubSeq(dir, 1, Len(dir) - 1))
  ELSE LET here == Append(dir, segs[i])
           name == "/" \o JoinSegments(here)
       IN  IF here \in Directories THEN Walk(segs, i + 1, here)
           ELSE IF i = Len(segs) THEN [status |-> "file", file |-> name]
           ELSE IF FileExists(name) THEN [status |-> "enotdir", file |-> ""]
           ELSE [status |-> "enoent", file |-> ""]

Resolve(path) == Walk(Segments(path), 1, <<>>)

\* readFileIfExists(outputPath): "content" with the file's content, "null" when the
\* file or a directory on the way does not exist (ENOENT, ENOTDIR), "throws" when
\* the path is a directory (EISDIR)
readFileIfExists(path) ==
  LET r == Resolve(path)
  IN  IF r.status = "isdir" THEN [result |-> "throws", content |-> ""]
      ELSE IF r.status = "file" /\ FileExists(r.file)
      THEN [result |-> "content", content |-> FileContent(r.file)]
      ELSE [result |-> "null", content |-> ""]

\* a run that writes no file
NoWrite ==
  UNCHANGED <<envExists, envContent, envLocalExists, envLocalContent,
              exampleExists, exampleContent, others, written>>

\* writeFile(outputPath, content) where fs.writeFileSync can write: the path is a
\* file, or a free name, in an existing directory
writeFile(path, content) ==
  LET file == Resolve(path).file
  IN  /\ written' = written \cup {file}
      /\ IF file = EnvPath
         THEN /\ envExists' = TRUE
              /\ envContent' = content
              /\ UNCHANGED <<envLocalExists, envLocalContent, exampleExists,
                             exampleContent, others>>
         ELSE IF file = EnvLocalPath
         THEN /\ envLocalExists' = TRUE
              /\ envLocalContent' = content
              /\ UNCHANGED <<envExists, envContent, exampleExists, exampleContent,
                             others>>
         ELSE IF file = ExamplePath
         THEN /\ exampleExists' = TRUE
              /\ exampleContent' = content
              /\ UNCHANGED <<envExists, envContent, envLocalExists, envLocalContent,
                             others>>
         ELSE /\ others' = [f \in DOMAIN others \cup {file} |->
                              IF f = file THEN content ELSE others[f]]
              /\ UNCHANGED <<envExists, envContent, envLocalExists, envLocalContent,
                             exampleExists, exampleContent>>

\* the end of a run that has `result` to deliver: printed on a dry run, else
\* written to the output path; fs.writeFileSync throws when the path is not a file
\* or a free name in an existing directory, and the catch of lines 310-313 exits
\* with code 1 and nothing written
Deliver(cli, result, done) ==
  IF cli.dryRun THEN op' = "dryrun" /\ NoWrite
  ELSE IF Resolve(cli.outputPath).status # "file" THEN op' = "error" /\ NoWrite
  ELSE op' = done /\ writeFile(cli.outputPath, result)

\* one run of main with the command line argv; nowStamp reads the clock at a
\* second t not before the last one read.  op records what the
\* run did: "help" (exit 0) or "badargs" (exit 1) when parseCliArgs exits,
\* "nosources" (exit 1), "error" (exit 1 after an exception), "created",
\* "unchanged", "updated", or "dryrun"; outPath is the output path of the run and
\* arg the content it found there
MainRun(argv) ==
  LET cli == parseCliArgs(argv)
      template == readFileIfExists(cli.outputPath)
  IN  IF cli.exit # -1
      THEN /\ op' = (IF cli.exit = 0 THEN "help" ELSE "badargs")
           /\ NoWrite
           /\ UNCHANGED <<outPath, arg, marked, text, clock>>
      ELSE IF envContent = "" /\ envLocalContent = ""
      THEN /\ op' = "nosources"
           /\ NoWrite
           /\ UNCHANGED <<outPath, arg, marked, text, clock>>
      ELSE IF template.result = "throws"
      THEN /\ op' = "error"
           /\ outPath' = cli.outputPath
           /\ NoWrite
           /\ UNCHANGED <<arg, marked, text, clock>>
      ELSE IF template.result = "null"
      THEN /\ outPath' = cli.outputPath
           /\ text' = buildExampleFromScratch(envContent, envLocalContent)
           /\ arg' = ""
           /\ Deliver(cli, text', "created")
           /\ UNCHANGED <<marked, clock>>
      ELSE /\ outPath' = cli.outputPath
           /\ marked' = markUnknownKeysInExample(template.content, envContent,
                                                 envLocalContent)
           /\ \E t \in clock..MaxClock :
                /\ clock' = t
                /\ text' = appendMissingKeysToExample(marked', envContent,
                                                      envLocalContent, t)
           /\ arg' = template.content
           /\ IF ~cli.dryRun /\ text' = template.content
              THEN op' = "unchanged" /\ NoWrite
              ELSE Deliver(cli, text', "updated")

\* a run of main with no arguments that finds a template: lines 293-303, annotate
\* then append, and writeFile when the result differs from the template
Patch ==
  /\ op \in {"none", "unchanged", "updated"}
  /\ exampleExists
  /\ runs < MaxRuns
  /\ runs' = runs + 1
  /\ MainRun(<<>>)
  /\ UNCHANGED <<tokens, index>>

InitPatch ==
  \/ \E sc \in PatchScenarios : Start(sc[1], sc[2], TRUE, sc[3])
  \/ \E src \in PatchSources, x \in Contents(TemplateLines, MaxTemplateLines) :
       Start(src[1], src[2], TRUE, x)

SpecPatch == InitPatch /\ [][Mark \/ Patch]_vars

Main ==
  /\ runs < MaxMainRuns
  /\ runs' = runs + 1
  /\ \E argv \in Argvs : MainRun(argv)
  /\ UNCHANGED <<tokens, index>>

\* a project with its source files, either of which may be absent or empty, and
\* no template yet
Init ==
  \/ \E sc \in MainScenarios : StartWith(TRUE, sc[1], sc[2] # "", sc[2], FALSE, "")
  \/ \E e \in Contents(MainPrimaryLines, MaxMainLines), l \in MainSecondaryContents :
       \E envThere \in (IF e = "" THEN BOOLEAN ELSE {TRUE}),
          envLocalThere \in (IF l = "" THEN BOOLEAN ELSE {TRUE}) :
         StartWith(envThere, e, envLocalThere, l, FALSE, "")

Next == Main

Spec == Init /\ [][Next]_vars

(***************************************************************************)
(* Properties of the tokenizer                                             *)
(***************************************************************************)

CountLF(s) == Cardinality({i \in 1..Len(s) : Ch(s, i) = "\n"})

\* s with every "\r\n" replaced by "\n"
RECURSIVE CRLFToLF(_)
CRLFToLF(s) ==
  IF Len(s) = 0 THEN ""
  ELSE IF Len(s) >= 2 /\ SubSeq(s, 1, 2) = "\r\n" THEN "\n" \o CRLFToLF(SubSeq(s, 3, Len(s)))
  ELSE Ch(s, 1) \o CRLFToLF(Tail(s))

\* C7 as stated: one token per line, and the raw lines joined by "\n" are the
\* original content exactly, for "\n" and for "\r\n" line endings
C7_RoundTripExact ==
  op = "tokenize" =>
    /\ Len(tokens) = CountLF(arg) + 1
    /\ JoinLines(Raws(tokens)) = arg

\* C7 amended: one token per line, and the raw lines joined by "\n" are the
\* original content with every "\r\n" replaced by "\n" (so the content itself when
\* it has no "\r\n")
C7_RoundTripModuloCRLF ==
  op = "tokenize" =>
    /\ Len(tokens) = CountLF(arg) + 1
    /\ JoinLines(Raws(tokens)) = CRLFToLF(arg)
    /\ (CRLFToLF(arg) = arg => JoinLines(Raws(tokens)) = arg)

\* a content with a "\r\n" ending, an assignment line and a second line, tokenized
C7_Witness ==
  /\ op = "tokenize"
  /\ arg = "A=\r\n"
  /\ Len(tokens) = 2
  /\ tokens[1].type = "assignment"
  /\ tokens[1].raw = "A="


(***************************************************************************)
(* Properties of the key indexer and the merger                            *)
(***************************************************************************)

PrimaryTokens == SourceTokens(envContent)
SecondaryTokens == SourceTokens(envLocalContent)

FirstPos(toks, k) == Min({i \in AssignPositions(toks) : toks[i].key = k})

\* the positions of the assignments that are the first of their key, and the rest
FirstOccurrences(toks) == {i \in AssignPositions(toks) : FirstPos(toks, toks[i].key) = i}
Duplicates(toks) == AssignPositions(toks) \ FirstOccurrences(toks)

\* the raw lines of the comment and blank tokens strictly between positions q and p
CommentsBetween(toks, q, p) ==
  LET between == SubSeq(toks, q + 1, p - 1)
  IN  Raws(SelectSeq(between, LAMBDA t : t.type # "assignment"))

\* the comment/blank run that immediately precedes position p
BlockBefore(toks, p) ==
  CommentsBetween(toks, Max({0} \cup {i \in AssignPositions(toks) : i < p}), p)

\* everything comment/blank since the last assignment that was indexed as a new key
PendingSinceLastNewKey(toks, p) ==
  CommentsBetween(toks, Max({0} \cup {i \in FirstOccurrences(toks) : i < p}), p)

MergedKeys == [i \in 1..Len(index.orderedEntries) |-> index.orderedEntries[i].key]
EntryOf(k) ==
  index.orderedEntries[CHOOSE i \in 1..Len(index.orderedEntries) :
                         index.orderedEntries[i].key = k]

\* the source an entry of the merged list comes from
SourceOf(k) == IF k \in TokenKeys(PrimaryTokens) THEN PrimaryTokens ELSE SecondaryTokens

\* C6: the merged list holds every key of either source exactly once, the primary
\* keys first in primary first-occurrence order, then the secondary-only keys in
\* secondary first-occurrence order, each with the comment block of that first
\* occurrence; [a,b,c] merged with [b,d,a,e] is [a,b,c,d,e]
C6_MergedKeyList ==
  op = "index" =>
    LET n == Len(index.orderedEntries)
        inP(k) == k \in TokenKeys(PrimaryTokens)
    IN  /\ \A i, j \in 1..n : i # j => MergedKeys[i] # MergedKeys[j]
        /\ {MergedKeys[i] : i \in 1..n} =
             TokenKeys(PrimaryTokens) \cup TokenKeys(SecondaryTokens)
        /\ \A i, j \in 1..n : i < j =>
             LET a == MergedKeys[i]
                 b == MergedKeys[j]
             IN  /\ inP(b) => inP(a)
                 /\ inP(a) /\ inP(b) =>
                      FirstPos(PrimaryTokens, a) < FirstPos(PrimaryTokens, b)
                 /\ ~inP(a) /\ ~inP(b) =>
                      FirstPos(SecondaryTokens, a) < FirstPos(SecondaryTokens, b)
        /\ \A i \in 1..n :
             LET k == MergedKeys[i]
             IN  index.orderedEntries[i].commentsBefore =
                   BlockBefore(SourceOf(k), FirstPos(SourceOf(k), k))
        /\ (envContent = "a=1\nb=2\nc=3" /\ envLocalContent = "b=1\nd=2\na=3\ne=4"
              => MergedKeys = <<"a", "b", "c", "d", "e">>)

\* the merge [a,b,c] with [b,d,a,e], and a shared key whose comment differs
C6_Witness ==
  /\ op = "index"
  /\ envContent = "a=1\nb=2\nc=3"
  /\ envLocalContent = "b=1\nd=2\na=3\ne=4"
  /\ Len(index.orderedEntries) = 5

\* C9 as stated: a duplicate assignment does not clear the pending block, so the
\* next new key (or the trailing block) gets every comment and blank line seen
\* since the last newly indexed key, those before the duplicate included
C9_DuplicateKeepsPending ==
  op = "index" =>
    \A d \in Duplicates(PrimaryTokens) :
      LET later == {p \in FirstOccurrences(PrimaryTokens) : p > d}
      IN  IF later # {}
          THEN EntryOf(PrimaryTokens[Min(later)].key).commentsBefore =
                 PendingSinceLastNewKey(PrimaryTokens, Min(later))
          ELSE index.trailingPrimary =
                 PendingSinceLastNewKey(PrimaryTokens, Len(PrimaryTokens) + 1)

\* C9 amended: a duplicate assignment is discarded and clears the pending block:
\* the next new key (or the trailing block) gets only the comment and blank lines
\* that follow the last assignment before it, duplicate or not
C9_DuplicateClearsPending ==
  op = "index" =>
    \A d \in Duplicates(PrimaryTokens) :
      LET later == {p \in FirstOccurrences(PrimaryTokens) : p > d}
      IN  IF later # {}
          THEN EntryOf(PrimaryTokens[Min(later)].key).commentsBefore =
                 BlockBefore(PrimaryTokens, Min(later))
          ELSE index.trailingPrimary =
                 BlockBefore(PrimaryTokens, Len(PrimaryTokens) + 1)

\* a comment, then a duplicate of A, then the new key B: B carries no comment
C9_Witness ==
  /\ op = "index"
  /\ envContent = "A=1\n# c\nA=1\nB=2"
  /\ Duplicates(PrimaryTokens) = {3}
  /\ EntryOf("B").commentsBefore = <<>>

(***************************************************************************)
(* Properties of the generated text                                        *)
(***************************************************************************)

\* the lines of a text that ends with the "\n" the generators add
LinesOf(t) == SplitLines(SubSeq(t, 1, Len(t) - 1))

\* position of the section header the patcher appended, in the lines of `text`
HeaderPos ==
  LET out == LinesOf(text)
  IN  Max({i \in 1..Len(out) : out[i] = SectionHeader(clock)})

\* the lines the tool generated from the sources: all of a fresh build, and the
\* appended section of a patch (none when the patcher returned its input)
GeneratedLines ==
  IF op = "build" THEN LinesOf(text)
  ELSE IF op = "append" /\ text # arg
       THEN SubSeq(LinesOf(text), HeaderPos, Len(LinesOf(text)))
  ELSE <<>>

SourceTokenSet ==
  {PrimaryTokens[i] : i \in 1..Len(PrimaryTokens)}
    \cup {SecondaryTokens[i] : i \in 1..Len(SecondaryTokens)}

AllSourceKeys == TokenKeys(PrimaryTokens) \cup TokenKeys(SecondaryTokens)

\* the trimmed text of a line before its first '=' outside quotes, the optional
\* export prefix aside: nothing of what follows the '=' is in it
TextBeforeEquals(raw) ==
  Trim(SubSeq(stripExportPrefix(raw), 1, findUnquotedEqualsIndex(stripExportPrefix(raw))))

\* ln is the `KEY=` line of a source assignment: its key, then '=', then nothing
IsKeyLineOfSource(ln) ==
  \E tk \in SourceTokenSet :
    /\ tk.type = "assignment"
    /\ tk.key = TextBeforeEquals(tk.raw)
    /\ ln = tk.key \o "="

\* C2 as stated: every generated line is the section header, a `KEY=` line of a
\* source key, or a verbatim source line that is blank or a '#' comment line
C2_OnlyBlankAndHashLinesCopied ==
  op \in {"build", "append"} =>
    \A ln \in {GeneratedLines[i] : i \in DOMAIN GeneratedLines} :
      \/ ln = SectionHeader(clock) /\ op = "append"
      \/ IsKeyLineOfSource(ln)
      \/ \E tk \in SourceTokenSet :
           tk.raw = ln /\ (isBlankLine(ln) \/ isCommentLine(ln))

\* C2 amended: every key is emitted only as the line `KEY=`, the key being the text
\* before the '=' of its source line and nothing following the '=', so no value of a
\* source assignment is copied; any other generated line is the section header or a
\* verbatim source line that the tokenizer classified as blank or comment, which
\* covers '#' lines and also the lines it cannot parse (no '=' outside quotes, or an
\* empty key)
C2_NoAssignmentValueCopied ==
  op \in {"build", "append"} =>
    \A ln \in {GeneratedLines[i] : i \in DOMAIN GeneratedLines} :
      \/ ln = SectionHeader(clock) /\ op = "append"
      \/ IsKeyLineOfSource(ln)
      \/ \E tk \in SourceTokenSet :
           tk.raw = ln /\ tk.type \in {"blank", "comment"}

\* a fresh build from A=1 followed by a line with its '=' inside an open quote
C2_Witness ==
  /\ op = "build"
  /\ envContent = "A=1\n'K=s"
  /\ envLocalContent = "A=9\nC=3\n"
  /\ text = "A=\nC=\n'K=s\n"

\* C3: a fresh build ends with exactly one newline, and the two scenarios of the
\* specification give exactly 'A=\n# db config\nB=\n' and 'A=\nC=\n'
C3_FreshBuildFormat ==
  op = "build" =>
    /\ Ch(text, Len(text)) = "\n"
    /\ (Len(text) > 1 => ~isBlankLine(LinesOf(text)[Len(LinesOf(text))]))
    /\ (envContent = "A=1\n# db config\nB=2\n" /\ envLocalContent = ""
          => text = "A=\n# db config\nB=\n")
    /\ (envContent = "A=1\n" /\ envLocalContent = "A=2\nC=3\n" => text = "A=\nC=\n")

\* C4: when a section is appended, every line before the appended header is the
\* template's line at the same position, and the only template lines that are gone
\* are trailing whitespace-only lines
C4_AppendOnly ==
  (op = "append" /\ text # arg) =>
    /\ \A i \in 1..(HeaderPos - 1) :
         i <= Len(SplitLines(arg)) /\ LinesOf(text)[i] = SplitLines(arg)[i]
    /\ \A i \in HeaderPos..Len(SplitLines(arg)) : isBlankLine(SplitLines(arg)[i])

\* C10: a non-empty leading comment/blank block of the primary source is emitted
\* once: a comment line of it that occurs once in the sources occurs once in the
\* fresh build
C10_HeaderEmittedOnce ==
  op = "build" =>
    \A i \in 1..LeadingCount(PrimaryTokens) :
      LET ln == PrimaryTokens[i].raw
      IN  (/\ ~isBlankLine(ln)
           /\ Cardinality({j \in 1..Len(PrimaryTokens) : PrimaryTokens[j].raw = ln}) = 1
           /\ \A j \in 1..Len(SecondaryTokens) : SecondaryTokens[j].raw # ln)
          => Cardinality({j \in 1..Len(LinesOf(text)) : LinesOf(text)[j] = ln}) = 1

\* the merged key list of the two sources, and the assignment keys of the template
\* the patcher was given
MergedKeyList ==
  LET entries == uniqueKeyOrderFromTokens(PrimaryTokens, SecondaryTokens).orderedEntries
  IN  [i \in 1..Len(entries) |-> entries[i].key]
TemplateKeys == TokenKeys(tokenizeEnvFile(arg))

\* the merged keys that are not assignment keys of the template, in merged order
AbsentKeys == SelectSeq(MergedKeyList, LAMBDA k : k \notin TemplateKeys)

\* the lines of the patcher's result after the header it appended
AppendedLines == SubSeq(LinesOf(text), HeaderPos + 1, Len(LinesOf(text)))

\* how many lines of a sequence are the section header
HeaderCount(lines) ==
  Cardinality({i \in 1..Len(lines) : lines[i] = SectionHeader(clock)})

\* the patcher returns its input when no merged key is absent from the template;
\* otherwise it adds one section header, and the `KEY=` lines after it are those of
\* the absent keys, in merged order, each once
SectionOfAbsentKeys ==
  op = "append" =>
    IF AbsentKeys = <<>> THEN text = arg
    ELSE /\ HeaderCount(LinesOf(text)) = HeaderCount(SplitLines(arg)) + 1
         /\ SelectSeq(AppendedLines,
                      LAMBDA ln : \E i \in 1..Len(AbsentKeys) : ln = KeyLine(AbsentKeys[i]))
              = [i \in 1..Len(AbsentKeys) |-> KeyLine(AbsentKeys[i])]

\* C11: patch completeness: the patcher returns its input when every merged key is
\* an assignment key of the template; otherwise it appends one section header and
\* one `KEY=` line per absent merged key, in merged order and each once, so that
\* the re-tokenized result has every source key as an assignment key and no line
\* of the appended section assigns a key the template already had
C11_PatchComplete ==
  op = "append" =>
    /\ SectionOfAbsentKeys
    /\ AllSourceKeys \subseteq TokenKeys(tokenizeEnvFile(text))
    /\ (text # arg =>
          \A i \in 1..Len(AppendedLines) :
            Token(AppendedLines[i]).type = "assignment"
              => Token(AppendedLines[i]).key \notin TemplateKeys)

(***************************************************************************)
(* Properties of the annotator and of repeated runs                        *)
(***************************************************************************)

\* the annotation the claim describes: the warning goes before the lines the
\* tokenizer classifies as assignments whose key is unknown, unless the nearest
\* preceding non-blank output line is the warning
RECURSIVE ExpectedMarks(_, _, _, _)
ExpectedMarks(lines, i, output, known) ==
  IF i > Len(lines) THEN output
  ELSE ExpectedMarks(lines, i + 1,
         (IF /\ Token(lines[i]).type = "assignment"
             /\ Token(lines[i]).key \notin known
             /\ ~PrevIsWarning(output)
          THEN Append(output, WARNING_MISSING_IN_SOURCES) ELSE output) \o <<lines[i]>>,
         known)

\* C5: the annotator's output is the template's line sequence with the warning
\* inserted before exactly the unknown-key assignment lines (not blank lines, not
\* '#' comment lines) not already preceded by it; trailing newlines aside
C5_AnnotationPlacement ==
  op = "mark" =>
    text = SingleTrailingNewline(
             JoinLines(ExpectedMarks(SplitLines(arg), 1, <<>>, AllSourceKeys)))

\* C1: a second run of the annotate-then-append pipeline on the output of the
\* first (the template the first run left), with the same sources, returns that
\* output unchanged
C1_PipelineIdempotent ==
  (op \in {"unchanged", "updated"} /\ runs >= 2) => text = arg

\* C8: with unchanged sources (no run has written to a file other than the
\* template) and no template at the start, every run that finds the template the
\* tool wrote leaves it as it is and reports nothing to update
C8_RerunsLeaveTemplate ==
  (op \in {"unchanged", "updated"} /\ outPath = ExamplePath
     /\ written \subseteq {ExamplePath})
    => (op = "unchanged" /\ exampleContent = arg)

====
